---- MODULE Spec2Model ----
(***************************************************************************)
(* nFlC multi-chunk LZO1X decompressor (src/nflc_decomp/nflc_tool.cpp).    *)
(*                                                                         *)
(* Two state machines share this module:                                   *)
(*   Spec      one call of LZO1XDecompressor::decompress, stepped label by *)
(*             label (entry, top of the main loop, first_literal_run, the  *)
(*             match loop, match_done, match_next);                        *)
(*   FileSpec  one NFlCFile: parseChunks, then NFlCFile::decompress with   *)
(*             its three strategies.                                       *)
(*                                                                         *)
(* Numbers.  uint8_t values are 0..255.  size_t arithmetic is modular; the *)
(* only subtraction that can go below zero is the one that resolves a      *)
(* match position.  A position is kept as the mathematical difference d:   *)
(* when d < 0 the machine value is 2^w + d (w the width of size_t), which  *)
(* is larger than every buffer index, and when d >= 0 it is d.  Unsigned   *)
(* comparisons are written on that representation (UGe).                   *)
(***************************************************************************)
EXTENDS Integers, Sequences, FiniteSets, TLC

VARIABLES eng,      \* the running decompress call: its locals and buffers
          plain,    \* the bytes the stream was encoded from, or NoPlain
          file      \* the NFlCFile object and the position in its driver

vars == <<eng, plain, file>>

(***************************************************************************)
(* Byte vectors (std::vector<uint8_t>, and the [src, src+srcLen) slice).   *)
(* A vector of len bytes is kept sparsely: at[i] for the indices whose     *)
(* byte differs from fill.  The form is canonical, so two vectors are      *)
(* equal exactly when they hold the same bytes.  Indices are 0-based.      *)
(***************************************************************************)
VAt(v, i) == IF i \in DOMAIN v.at THEN v.at[i] ELSE v.fill

VOfSeq(q, fill) ==
    [len  |-> Len(q),
     at   |-> [i \in {k \in 0..(Len(q) - 1) : q[k + 1] # fill} |-> q[i + 1]],
     fill |-> fill]

VSlice(v, from, n) ==
    [len  |-> n,
     at   |-> [i \in {k - from : k \in {x \in DOMAIN v.at : x >= from /\ x < from + n}}
                 |-> v.at[i + from]],
     fill |-> v.fill]

VCat(a, b) ==
    [len  |-> a.len + b.len,
     at   |-> [i \in DOMAIN a.at \cup {k + a.len : k \in DOMAIN b.at}
                 |-> IF i \in DOMAIN a.at THEN a.at[i] ELSE b.at[i - a.len]],
     fill |-> a.fill]

VEmpty(fill) == [len |-> 0, at |-> [i \in {} |-> 0], fill |-> fill]

VToSeq(v) == [i \in 1..v.len |-> VAt(v, i - 1)]

(***************************************************************************)
(* LZO1XDecompressor                                                       *)
(***************************************************************************)
\* enum class Result; FAULT is not a Result: it is the call not returning
\* because a read outside the source buffer trapped.
ResultValues == {"OK", "INPUT_OVERRUN", "OUTPUT_OVERRUN", "LOOKBEHIND_OVERRUN",
                 "INVALID_DATA", "ERROR"}

\* What a read at src + srcLen (one past the buffer) can yield: the read
\* traps, or it yields whatever byte lies there.
Trap == -1
JunkVals == {Trap, 0, 1, 110}

\* mPos >= c for a position kept as a difference (see "Numbers" above).
UGe(d, c) == d < 0 \/ d >= c

\* The locals of decompress at its entry.
EngStart(src, maxDstLen) ==
    [src |-> src, maxDstLen |-> maxDstLen,
     ip |-> 0, t |-> 0, mPos |-> 0, mLen |-> 0,
     dst |-> <<>>, dstLen |-> 0, status |-> "NONE", pc |-> "entry",
     rdOOB |-> FALSE, wrOOB |-> FALSE, lbBad |-> FALSE, tok |-> "none",
     prior |-> <<>>]

\* op - dst: the bytes written so far are dst[0 .. op).
Op(s) == Len(s.dst)

\* return Result::X (dstLen is stored only on the OK path)
Ret(s, st) == [s EXCEPT !.status = st, !.pc = "done"]

\* A return that accepts the end marker only at the end of the source.
RetOKAtEnd(s) ==
    IF s.ip < s.src.len THEN Ret(s, "INVALID_DATA")
    ELSE [s EXCEPT !.status = "OK", !.pc = "done", !.dstLen = Op(s)]

RetOK(s) == [s EXCEPT !.status = "OK", !.pc = "done", !.dstLen = Op(s)]

\* *op++ = b
PutByte(s, b) ==
    [s EXCEPT !.dst = Append(@, b),
              !.wrOOB = @ \/ Len(s.dst) >= s.maxDstLen]

\* do { *op++ = *ip++; } while (--n > 0);   (n >= 1, no overlap)
CopyLiterals(s, n) ==
    [s EXCEPT !.dst = @ \o [i \in 1..n |-> VAt(s.src, s.ip + i - 1)],
              !.ip = @ + n,
              !.rdOOB = @ \/ s.ip + n > s.src.len,
              !.wrOOB = @ \/ Len(s.dst) + n > s.maxDstLen]

\* dst[pos] for a position the call has not written: what the caller's
\* buffer held before the call (prior), zero past that.
PriorAt(s, pos) == IF pos < Len(s.prior) THEN s.prior[pos + 1] ELSE 0

\* A copy that takes each byte from the buffer as it stood before the call
\* wherever the buffer held something there.
RECURSIVE CopyMatchStale(_, _, _)
CopyMatchStale(s, pos, n) ==
    LET b  == IF pos < Len(s.prior) THEN s.prior[pos + 1] ELSE s.dst[pos + 1]
        s1 == PutByte(s, b)
    IN  IF n <= 1 THEN s1 ELSE CopyMatchStale(s1, pos + 1, n - 1)

\* A copy of n bytes taken all at once from the buffer as it stands when
\* the copy begins.
CopyMatchBlock(s, pos, n) ==
    [s EXCEPT !.dst = @ \o [i \in 1..n |->
                               IF pos + i <= Len(s.dst) THEN s.dst[pos + i]
                               ELSE PriorAt(s, pos + i - 1)],
              !.wrOOB = @ \/ Len(s.dst) + n > s.maxDstLen]

\* do { *op++ = *mSrc++; } while (--n > 0), one byte at a time, so a byte
\* written by this copy can be read by it again.
RECURSIVE CopyMatch(_, _, _)
CopyMatch(s, pos, n) ==
    LET bad == pos >= Op(s)
        b   == IF bad THEN PriorAt(s, pos) ELSE s.dst[pos + 1]
        s1  == [PutByte(s, b) EXCEPT !.lbBad = @ \/ bad]
    IN  IF n <= 1 THEN s1 ELSE CopyMatch(s1, pos + 1, n - 1)

\* while (*ip == 0) { acc += 255; ip++; if (ip >= ipEnd) return INPUT_OVERRUN; }
\* acc += bias + *ip++;
\* The loop stops at the first non-zero byte at or after ip, or runs off the
\* end when there is none; each zero byte passed adds 255.  The first *ip is
\* read without a check: when ip is at ipEnd, j is what that read yields.
ZeroRun(src, ip, acc, bias, j) ==
    LET nz == IF src.fill = 0
              THEN {k \in DOMAIN src.at : k >= ip /\ k < src.len /\ src.at[k] # 0}
              ELSE {k \in ip..(src.len - 1) : VAt(src, k) # 0}
        k  == CHOOSE x \in nz : \A y \in nz : x <= y
    IN  IF ip >= src.len
        THEN IF j = Trap THEN [res |-> "trap", ip |-> ip, acc |-> acc, oob |-> TRUE]
             ELSE IF j = 0
             THEN [res |-> "overrun", ip |-> ip + 1, acc |-> acc + 255, oob |-> TRUE]
             ELSE [res |-> "ok", ip |-> ip + 1, acc |-> acc + bias + j, oob |-> TRUE]
        ELSE IF nz = {}
        THEN [res |-> "overrun", ip |-> src.len, acc |-> acc + 255 * (src.len - ip),
              oob |-> FALSE]
        ELSE [res |-> "ok", ip |-> k + 1,
              acc |-> acc + 255 * (k - ip) + bias + VAt(src, k), oob |-> FALSE]

\* OutFits with the bound one byte late, and with no test for a single byte.
OutFitsLate(s, n) == Op(s) + n <= s.maxDstLen + 1
OutFitsUnlessOne(s, n) == n = 1 \/ Op(s) + n <= s.maxDstLen

\* if (op + n > opEnd) return Result::OUTPUT_OVERRUN;   (the test that passes)
OutFits(s, n) == Op(s) + n <= s.maxDstLen

\* if (ip + n > ipEnd) return Result::INPUT_OVERRUN;    (the test that passes)
InFits(s, n) == s.ip + n <= s.src.len

\* Lookbehind as a signed comparison: a wrapped position passes.
LookbehindSigned(d, op) == d >= op

\* if (mPos >= (size_t)(op - dst)) return Result::LOOKBEHIND_OVERRUN;
Lookbehind(d, op) == UGe(d, op)

\* The distance bases written as literals in the match decoders.
M1DirectBase == 2048
\* The far-match base one short.
M4BaseOff == 16384 - 1
M4Base == 16384

\* FirstCount one too small.
FirstCountShort(t0) == t0 - 18

\* t -= 17: the literal count carried by a first byte above 17.
FirstCount(t0) == t0 - 17

\* IsEndMarker tested after the 0x4000 base is taken off.
IsEndMarkerLate(d, op) == d - M4Base = op

\* if (mPos == (size_t)(op - dst)): the end of stream marker.
IsEndMarker(d, op) == d = op

\* Lines 90-119: argument check and first byte handling.
Entry(s) ==
    IF s.src.len = 0 THEN Ret(s, "INVALID_DATA")
    ELSE
      LET t0 == VAt(s.src, 0)
          s1 == [s EXCEPT !.ip = 1, !.t = t0]
      IN  IF t0 > 17
          THEN LET n  == FirstCount(t0)
                   s2 == [s1 EXCEPT !.t = n]
               IN  IF n < 4 THEN [s2 EXCEPT !.pc = "match_next"]
                   ELSE IF ~OutFits(s2, n) THEN Ret(s2, "OUTPUT_OVERRUN")
                   ELSE IF ~InFits(s2, n) THEN Ret(s2, "INPUT_OVERRUN")
                   ELSE [CopyLiterals(s2, n) EXCEPT !.t = 0, !.pc = "first_literal_run"]
          ELSE [s1 EXCEPT !.pc = "loop_top"]

\* Lines 121-140: the top of while (true): a literal run when t < 16, else
\* straight to the match loop.  t is whatever the previous step left in it.
LoopTop(s, j) ==
    IF s.t < 16
    THEN LET z  == IF s.t = 0 THEN ZeroRun(s.src, s.ip, 0, 15, j)
                   ELSE [res |-> "ok", ip |-> s.ip, acc |-> s.t, oob |-> FALSE]
             s1 == [s EXCEPT !.ip = z.ip, !.t = z.acc, !.rdOOB = @ \/ z.oob]
         IN  IF z.res = "trap" THEN Ret(s1, "FAULT")
             ELSE IF z.res = "overrun" THEN Ret(s1, "INPUT_OVERRUN")
             ELSE LET n  == z.acc + 3
                      s2 == [s1 EXCEPT !.t = n]
                  IN  IF ~OutFits(s2, n) THEN Ret(s2, "OUTPUT_OVERRUN")
                      ELSE IF ~InFits(s2, n) THEN Ret(s2, "INPUT_OVERRUN")
                      ELSE [CopyLiterals(s2, n) EXCEPT !.t = 0,
                                                       !.pc = "first_literal_run"]
    ELSE [s EXCEPT !.pc = "match"]

\* Lines 141-162: the control byte after a literal run; t < 16 is the
\* 3-byte short match ("M1 direct").
FirstLiteralRun(s) ==
    IF s.ip >= s.src.len THEN Ret(s, "INPUT_OVERRUN")
    ELSE
      LET t  == VAt(s.src, s.ip)
          s1 == [s EXCEPT !.t = t, !.ip = @ + 1]
      IN  IF t < 16
          THEN IF s1.ip >= s1.src.len THEN Ret(s1, "INPUT_OVERRUN")
               ELSE LET d  == Op(s1) - 1 - M1DirectBase - (t \div 4)
                                - VAt(s1.src, s1.ip) * 4
                        s2 == [s1 EXCEPT !.ip = @ + 1, !.mPos = d, !.tok = "M1D"]
                    IN  IF Lookbehind(d, Op(s2)) THEN Ret(s2, "LOOKBEHIND_OVERRUN")
                        ELSE IF ~OutFits(s2, 3) THEN Ret(s2, "OUTPUT_OVERRUN")
                        ELSE [CopyMatch(s2, d, 3) EXCEPT !.pc = "match_done"]
          ELSE [s1 EXCEPT !.pc = "match"]

\* Lines 236-249: validate match position, copy match.
MatchCopy(s) ==
    IF Lookbehind(s.mPos, Op(s)) THEN Ret(s, "LOOKBEHIND_OVERRUN")
    ELSE IF ~OutFits(s, s.mLen) THEN Ret(s, "OUTPUT_OVERRUN")
    ELSE [CopyMatch(s, s.mPos, s.mLen) EXCEPT !.mLen = 0, !.pc = "match_done"]

\* Lines 169-176: t >= 64.
MatchM2(s) ==
    IF s.ip >= s.src.len THEN Ret(s, "INPUT_OVERRUN")
    ELSE MatchCopy([s EXCEPT
            !.mPos = Op(s) - 1 - ((s.t \div 4) % 8) - VAt(s.src, s.ip) * 8,
            !.ip   = @ + 1,
            !.mLen = (s.t \div 32) - 1 + 3,
            !.tok  = "M2"])

\* Lines 177-193: 32 <= t < 64.
MatchM3(s, j) ==
    LET z  == IF s.t % 32 = 0 THEN ZeroRun(s.src, s.ip, 0, 31, j)
              ELSE [res |-> "ok", ip |-> s.ip, acc |-> s.t % 32, oob |-> FALSE]
        s1 == [s EXCEPT !.ip = z.ip, !.mLen = z.acc, !.rdOOB = @ \/ z.oob]
    IN  IF z.res = "trap" THEN Ret(s1, "FAULT")
        ELSE IF z.res = "overrun" THEN Ret(s1, "INPUT_OVERRUN")
        ELSE LET s2 == [s1 EXCEPT !.mLen = z.acc + 2]
             IN  IF ~InFits(s2, 2) THEN Ret(s2, "INPUT_OVERRUN")
                 ELSE MatchCopy([s2 EXCEPT
                        !.mPos = Op(s) - 1 - ((VAt(s.src, s2.ip) \div 4)
                                              + VAt(s.src, s2.ip + 1) * 64),
                        !.ip   = @ + 2,
                        !.tok  = "M3"])

\* Lines 194-217: 16 <= t < 32, the far match and the end of stream marker.
MatchM4(s, j) ==
    LET hi == ((s.t \div 8) % 2) * 8 * 2048          \* (t & 8) << 11
        z  == IF s.t % 8 = 0 THEN ZeroRun(s.src, s.ip, 0, 7, j)
              ELSE [res |-> "ok", ip |-> s.ip, acc |-> s.t % 8, oob |-> FALSE]
        s1 == [s EXCEPT !.ip = z.ip, !.mLen = z.acc, !.mPos = Op(s) - hi,
                        !.rdOOB = @ \/ z.oob]
    IN  IF z.res = "trap" THEN Ret(s1, "FAULT")
        ELSE IF z.res = "overrun" THEN Ret(s1, "INPUT_OVERRUN")
        ELSE LET s2 == [s1 EXCEPT !.mLen = z.acc + 2]
             IN  IF ~InFits(s2, 2) THEN Ret(s2, "INPUT_OVERRUN")
                 ELSE LET d  == Op(s) - hi - ((VAt(s.src, s2.ip) \div 4)
                                              + VAt(s.src, s2.ip + 1) * 64)
                          s3 == [s2 EXCEPT !.mPos = d, !.ip = @ + 2]
                      IN  IF IsEndMarker(d, Op(s)) THEN RetOK([s3 EXCEPT !.tok = "EOS"])
                          ELSE MatchCopy([s3 EXCEPT !.mPos = d - M4Base,
                                                    !.tok = "M4"])

\* Lines 218-234: t < 16 inside the match loop, the 2-byte short match.
MatchM1(s) ==
    IF s.ip >= s.src.len THEN Ret(s, "INPUT_OVERRUN")
    ELSE LET d  == Op(s) - 1 - (s.t \div 4) - VAt(s.src, s.ip) * 4
             s1 == [s EXCEPT !.ip = @ + 1, !.mPos = d, !.tok = "M1"]
         IN  IF Lookbehind(d, Op(s1)) THEN Ret(s1, "LOOKBEHIND_OVERRUN")
             ELSE IF ~OutFits(s1, 2) THEN Ret(s1, "OUTPUT_OVERRUN")
             ELSE [CopyMatch(s1, d, 2) EXCEPT !.pc = "match_done"]

\* Lines 165-249: one pass of the match loop up to match_done.
Match(s, j) ==
    IF s.t >= 64 THEN MatchM2(s)
    ELSE IF s.t >= 32 THEN MatchM3(s, j)
    ELSE IF s.t >= 16 THEN MatchM4(s, j)
    ELSE MatchM1(s)

\* match_done taking the count from the last byte consumed, ip[-1].
MatchDoneLast(s) ==
    LET n == VAt(s.src, s.ip - 1) % 4
    IN  [s EXCEPT !.t = n, !.pc = IF n = 0 THEN "loop_top" ELSE "match_next"]

\* Lines 251-253: t = ip[-2] & 3; if (t == 0) break;
MatchDone(s) ==
    LET n == VAt(s.src, s.ip - 2) % 4
    IN  [s EXCEPT !.t = n, !.pc = IF n = 0 THEN "loop_top" ELSE "match_next"]

\* Lines 255-269: copy trailing literals, read the next control byte.
MatchNext(s) ==
    IF ~OutFits(s, s.t) THEN Ret(s, "OUTPUT_OVERRUN")
    ELSE IF ~InFits(s, s.t) THEN Ret(s, "INPUT_OVERRUN")
    ELSE LET s1 == CopyLiterals(s, s.t)
         IN  IF s1.ip >= s1.src.len THEN Ret(s1, "INPUT_OVERRUN")
             ELSE [s1 EXCEPT !.t = VAt(s1.src, s1.ip), !.ip = @ + 1, !.pc = "match"]

\* One step of the call from label s.pc; tok names the match token a step
\* resolved, so it is cleared on the way in.
Step(s0, j) ==
    LET s == [s0 EXCEPT !.tok = "none"]
    IN  CASE s.pc = "entry"             -> Entry(s)
          [] s.pc = "loop_top"          -> LoopTop(s, j)
          [] s.pc = "first_literal_run" -> FirstLiteralRun(s)
          [] s.pc = "match"             -> Match(s, j)
          [] s.pc = "match_done"        -> MatchDone(s)
          [] s.pc = "match_next"        -> MatchNext(s)
          [] OTHER                      -> s0

\* The whole call: the state at its return.
RECURSIVE Run(_, _)
Run(s, j) == IF s.pc = "done" THEN s ELSE Run(Step(s, j), j)

Decompress(src, maxDstLen, j) == Run(EngStart(src, maxDstLen), j)

\* The same call on a destination buffer that already holds prior.
DecompressOver(src, maxDstLen, j, prior) ==
    Run([EngStart(src, maxDstLen) EXCEPT !.prior = prior], j)

\* The destination buffer after a call that wrote dst over prior.
Overwritten(prior, dst) ==
    dst \o SubSeq(prior, Len(dst) + 1, Len(prior))

(***************************************************************************)
(* Reference encoder of the token grammar, and the bytes a token list      *)
(* stands for.  A parse is a list of items (a literal run, possibly empty, *)
(* then a match of len bytes at distance dist) and the literals before the *)
(* end marker.                                                             *)
(***************************************************************************)
Zeros(k) == [i \in 1..k |-> 0]

\* A length v on a control byte with maxv free length values: in the byte
\* when it fits, else a zero length field, one zero byte per 255 and a
\* final byte of 1..255.
LenBytes(base, v, maxv) ==
    IF v <= maxv THEN <<base + v>>
    ELSE <<base>> \o Zeros((v - maxv - 1) \div 255) \o <<((v - maxv - 1) % 255) + 1>>

\* The literals q; atStart: they open the stream.  Counts 1..3 that follow
\* a match are announced by that match (EncMatch's tr) and emitted bare.
EncLits(q, atStart) ==
    LET n == Len(q)
    IN  IF n = 0 THEN <<>>
        ELSE IF atStart /\ n <= 238 THEN <<17 + n>> \o q
        ELSE IF ~atStart /\ n <= 3 THEN q
        ELSE LenBytes(0, n - 3, 15) \o q

\* The decoder position after the literals: "top" (a new control byte at the
\* top of the main loop), "trail" (after 1..3 literals) or "run" (after a
\* literal run).
CtxAfter(n) == IF n = 0 THEN "top" ELSE IF n <= 3 THEN "trail" ELSE "run"

TrailOf(n) == IF n <= 3 THEN n ELSE 0

\* Whether the grammar has an encoding of the match in that position.
Encodable(d, l, ctx) ==
    \/ ctx = "trail" /\ l = 2 /\ d >= 1 /\ d <= 1024
    \/ ctx = "run" /\ l = 3 /\ d >= 2049 /\ d <= 3072
    \/ l >= 3 /\ d >= 1 /\ d <= 49151

\* The match (d, l) followed by tr trailing literals.
EncMatch(d, l, ctx, tr) ==
    IF ctx = "trail" /\ l = 2 /\ d <= 1024
    THEN <<((d - 1) % 4) * 4 + tr, (d - 1) \div 4>>
    ELSE IF ctx = "run" /\ l = 3 /\ d >= 2049 /\ d <= 3072
    THEN <<((d - 2049) % 4) * 4 + tr, (d - 2049) \div 4>>
    ELSE IF l >= 4 /\ l <= 9 /\ d <= 2048
    THEN <<(l - 2) * 32 + ((d - 1) % 8) * 4 + tr, (d - 1) \div 8>>
    ELSE IF d <= 16384
    THEN LenBytes(32, l - 2, 31) \o <<((d - 1) % 64) * 4 + tr, (d - 1) \div 64>>
    ELSE LET dd   == d - 16384
             hi   == IF dd >= 16384 THEN 8 ELSE 0
             rest == dd - hi * 2048
         IN  LenBytes(16 + hi, l - 2, 7) \o <<(rest % 64) * 4 + tr, rest \div 64>>

EndMarker == <<17, 0, 0>>

RECURSIVE EncItems(_, _, _, _)
EncItems(items, tail, k, atStart) ==
    IF k > Len(items) THEN EncLits(tail, atStart) \o EndMarker
    ELSE LET it   == items[k]
             nxt  == IF k < Len(items) THEN Len(items[k + 1].lits) ELSE Len(tail)
         IN  EncLits(it.lits, atStart)
             \o EncMatch(it.dist, it.len, CtxAfter(Len(it.lits)), TrailOf(nxt))
             \o EncItems(items, tail, k + 1, FALSE)

Encode(p) == EncItems(p.items, p.tail, 1, TRUE)

\* len bytes copied from dist bytes back, oldest first.
RECURSIVE Expand(_, _, _)
Expand(x, dist, len) ==
    IF len = 0 THEN x ELSE Expand(Append(x, x[Len(x) - dist + 1]), dist, len - 1)

RECURSIVE PlainOf(_, _, _)
PlainOf(p, k, x) ==
    IF k > Len(p.items) THEN x \o p.tail
    ELSE PlainOf(p, k + 1, Expand(x \o p.items[k].lits, p.items[k].dist, p.items[k].len))

Plain(p) == PlainOf(p, 1, <<>>)

\* Every match has an encoding where it stands and refers to bytes that exist.
RECURSIVE ValidFrom(_, _, _)
ValidFrom(p, k, n) ==
    IF k > Len(p.items) THEN TRUE
    ELSE LET it == p.items[k]
             m  == n + Len(it.lits)
         IN  /\ Encodable(it.dist, it.len, CtxAfter(Len(it.lits)))
             /\ it.dist <= m
             /\ ValidFrom(p, k + 1, m + it.len)

ValidParse(p) == ValidFrom(p, 1, 0)

(***************************************************************************)
(* The calls of decompress that are explored.                              *)
(***************************************************************************)
MaxSrcLen == 3      \* arbitrary streams: every stream this long over ByteVals
MaxItems == 2       \* encoded streams: items per parse
MaxDst == 4         \* arbitrary streams: destination capacities 0..MaxDst

\* A capacity no explored stream reaches: the scratch buffer of
\* decompressChunked, chunkDecompSize * 2.
BigCap == 65536

\* One byte of each class of control byte, and the small distance bytes.
ByteVals == {0, 1, 4, 16, 17, 18, 21, 24, 32, 64}

ArbStreams == UNION {[1..n -> ByteVals] : n \in 0..MaxSrcLen}

\* n literal bytes 'A', 'B', ...
Lit(n) == [i \in 1..n |-> 65 + ((i - 1) % 26)]

LitLens == {0, 1, 4}
Matches == {<<1, 2>>, <<1, 3>>, <<2, 5>>}       \* <<dist, len>>
Items == {[lits |-> Lit(n), dist |-> m[1], len |-> m[2]] : n \in LitLens, m \in Matches}

Parses ==
    {p \in [items : UNION {[1..n -> Items] : n \in 0..MaxItems},
            tail  : {Lit(n) : n \in LitLens}] : ValidParse(p)}

\* A stream that is one literal run and the end marker, for every count the
\* first byte can carry.
LitParses ==
    {[items |-> <<>>, tail |-> q]
        : q \in UNION {{Lit(n), [i \in 1..n |-> 17]} : n \in 0..238}}

\* Outputs long enough for the two far encodings to have something to copy:
\* the 3-byte short match (distance 2049..3072) and the far match
\* (distance above 16384).
LongParses ==
    {[items |-> <<[lits |-> Lit(2049), dist |-> 2049, len |-> 3]>>, tail |-> Lit(1)],
     [items |-> <<[lits |-> Lit(16385), dist |-> 16385, len |-> 3]>>, tail |-> Lit(1)],
     [items |-> <<[lits |-> Lit(16385), dist |-> 16385, len |-> 10]>>, tail |-> Lit(1)]}

\* One item whose match reaches further back than the output goes: one byte
\* too far, and far enough for each of the far encodings.
OverParses ==
    {p \in [items : {<<[lits |-> Lit(n), dist |-> m[1], len |-> m[2]]>>
                        : n \in {1, 4},
                          m \in {<<2, 2>>, <<2, 3>>, <<2, 4>>, <<5, 3>>, <<5, 4>>,
                                 <<2049, 3>>, <<16385, 3>>}},
            tail  : {<<>>}]
        : /\ p.items[1].dist > Len(p.items[1].lits)
          /\ Encodable(p.items[1].dist, p.items[1].len, CtxAfter(Len(p.items[1].lits)))}

NoPlain == [known |-> FALSE, bytes |-> <<>>]

CapsFor(n) == {c \in {0, n - 1, n, BigCap} : c >= 0}

EncodedCases ==
    UNION {{[src   |-> VOfSeq(Encode(p), 0), cap |-> c,
             plain |-> [known |-> TRUE, bytes |-> Plain(p)]]
               : c \in CapsFor(Len(Plain(p)))}
           : p \in Parses \cup LitParses \cup LongParses}

\* The encoded streams cut short at every length.
TruncCases ==
    UNION {{[src |-> VOfSeq(SubSeq(Encode(p), 1, k), 0), cap |-> c, plain |-> NoPlain]
               : k \in 0..(Len(Encode(p)) - 1), c \in {Len(Plain(p)), BigCap}}
           : p \in Parses}

OverCases ==
    UNION {{[src |-> VOfSeq(Encode(p), 0), cap |-> c, plain |-> NoPlain]
                : c \in {Len(p.items[1].lits), BigCap}}
           : p \in OverParses}

\* Bytes that follow the end marker inside the source: padding, a second
\* end marker, a literal run, bytes that decode to nothing valid.
Tails == {<<0>>, <<0, 0, 0, 0, 0>>, <<17, 0, 0>>, <<21, 65, 66, 67, 68>>,
          <<255, 255, 255, 255>>}

\* Encoded streams with such bytes after their end marker.
TailCases ==
    {[src |-> VOfSeq(Encode(p) \o q, 0), cap |-> BigCap, plain |-> NoPlain]
        : p \in {x \in Parses : Len(x.items) <= 1}, q \in Tails}

ArbCases ==
    {[src |-> VOfSeq(q, 0), cap |-> c, plain |-> NoPlain]
        : q \in ArbStreams, c \in {0, 1, MaxDst, BigCap}}

EngIdle == [EngStart(VEmpty(0), 0) EXCEPT !.pc = "idle"]
FileIdle == [pc |-> "idle"]

Init ==
    /\ \E c \in EncodedCases \cup TruncCases \cup OverCases \cup ArbCases \cup TailCases :
          /\ eng = EngStart(c.src, c.cap)
          /\ plain = c.plain
    /\ file = FileIdle

DecompressEntry ==
    /\ eng.pc = "entry"
    /\ eng' = Step(eng, Trap)
    /\ UNCHANGED <<plain, file>>

DecompressLoopTop ==
    /\ eng.pc = "loop_top"
    /\ \E j \in JunkVals : eng' = Step(eng, j)
    /\ UNCHANGED <<plain, file>>

DecompressFirstLiteralRun ==
    /\ eng.pc = "first_literal_run"
    /\ eng' = Step(eng, Trap)
    /\ UNCHANGED <<plain, file>>

DecompressMatch ==
    /\ eng.pc = "match"
    /\ \E j \in JunkVals : eng' = Step(eng, j)
    /\ UNCHANGED <<plain, file>>

DecompressMatchDone ==
    /\ eng.pc = "match_done"
    /\ eng' = Step(eng, Trap)
    /\ UNCHANGED <<plain, file>>

DecompressMatchNext ==
    /\ eng.pc = "match_next"
    /\ eng' = Step(eng, Trap)
    /\ UNCHANGED <<plain, file>>

Next ==
    \/ DecompressEntry
    \/ DecompressLoopTop
    \/ DecompressFirstLiteralRun
    \/ DecompressMatch
    \/ DecompressMatchDone
    \/ DecompressMatchNext

Spec == Init /\ [][Next]_vars

\* The call runs on: straight-line code takes its next step.
LiveSpec == Spec /\ WF_vars(Next)

(***************************************************************************)
(* NFlCFile                                                                *)
(***************************************************************************)
\* 0x436C466E as the four bytes the little-endian load compares.
NFLC_MAGIC == <<110, 70, 108, 67>>
CHUNK_SIZE == 32768
MAIN_HEADER_SIZE == 64
CHUNK_HEADER_SIZE == 16
\* Offsets of NFlCMainHeader::compressedSize and ::decompressedSize, and of
\* the version field of both headers.
CompressedSizeAt == 24
DecompressedSizeAt == 40
VersionAt == 4

\* A uint32_t field loaded from the buffer.
LE32(data, off) ==
    VAt(data, off) + 256 * VAt(data, off + 1) + 65536 * VAt(data, off + 2)
        + 16777216 * VAt(data, off + 3)

\* Variants of the signature test: one that every position passes, and one
\* that looks at the first byte only.
HasMagicAlways(data, off) == TRUE
HasMagicFirstByte(data, off) == VAt(data, off) = NFLC_MAGIC[1]

\* hdr->magic != NFLC_MAGIC, negated.
HasMagic(data, off) == \A i \in 0..3 : VAt(data, off + i) = NFLC_MAGIC[i + 1]

\* A variant that puts every payload behind a main header.
ChunkInfoAtMain(data, offset) ==
    [offset     |-> offset,
     dataOffset |-> offset + MAIN_HEADER_SIZE,
     dataSize   |-> 0,
     chunkIndex |-> (LE32(data, offset + VersionAt) \div 256) % 65536,
     version    |-> LE32(data, offset + VersionAt)]

\* The descriptor pushed for a header found at offset; dataSize is filled in
\* by the second loop.
ChunkInfoAt(data, offset) ==
    [offset     |-> offset,
     dataOffset |-> IF offset = 0 THEN MAIN_HEADER_SIZE ELSE offset + CHUNK_HEADER_SIZE,
     dataSize   |-> 0,
     chunkIndex |-> (LE32(data, offset + VersionAt) \div 256) % 65536,
     version    |-> LE32(data, offset + VersionAt)]

\* The header scan of parseChunks from one stride on.
RECURSIVE FindChunks(_, _, _)
FindChunks(data, offset, chunks) ==
    IF offset >= data.len \/ offset + CHUNK_HEADER_SIZE > data.len
    THEN [fatal |-> FALSE, chunks |-> chunks]
    ELSE IF ~HasMagic(data, offset)
    THEN IF offset = 0
         THEN [fatal |-> TRUE, chunks |-> chunks]
         ELSE FindChunks(data, offset + CHUNK_SIZE, chunks)
    ELSE FindChunks(data, offset + CHUNK_SIZE, Append(chunks, ChunkInfoAt(data, offset)))

\* A variant in which every payload runs to the end of the buffer.
DataSizesToEnd(chunks, size) ==
    [i \in 1..Len(chunks) |-> [chunks[i] EXCEPT !.dataSize = size - chunks[i].dataOffset]]

\* The second loop of parseChunks: each payload runs to the next header.
DataSizes(chunks, size) ==
    [i \in 1..Len(chunks) |->
        [chunks[i] EXCEPT !.dataSize =
            (IF i + 1 <= Len(chunks) THEN chunks[i + 1].offset ELSE size)
                - chunks[i].dataOffset]]

\* A variant of the size test that asks for a chunk header only.
TooSmallForChunkHeader(data) == data.len < CHUNK_HEADER_SIZE

\* if (data_.size() < MAIN_HEADER_SIZE)
TooSmall(data) == data.len < MAIN_HEADER_SIZE

ParseChunks(f) ==
    IF TooSmall(f.data)
    THEN [f EXCEPT !.chunks = <<>>, !.pc = "load_failed"]
    ELSE LET found == FindChunks(f.data, 0, <<>>)
         IN  IF found.fatal
             THEN [f EXCEPT !.chunks = found.chunks, !.pc = "load_failed"]
             ELSE IF found.chunks = <<>>
             THEN [f EXCEPT !.chunks = <<>>, !.pc = "load_failed"]
             ELSE [f EXCEPT !.chunks = DataSizes(found.chunks, f.data.len),
                            !.mainCompressedSize = LE32(f.data, CompressedSizeAt),
                            !.mainDecompressedSize = LE32(f.data, DecompressedSizeAt),
                            !.pc = "decompress"]

\* What the byte one past a slice that ends at index end can read as: the
\* next byte of data_ when there is one, anything (or a trap) past data_.
PastBytes(data, end) == IF end < data.len THEN {VAt(data, end)} ELSE JunkVals

Min(a, b) == IF a <= b THEN a ELSE b

InsideFile(data, chunk) == chunk.dataOffset + chunk.dataSize <= data.len

RECURSIVE ExtractRawFrom(_, _, _)
ExtractRawFrom(f, i, result) ==
    IF i > Len(f.chunks) THEN result
    ELSE ExtractRawFrom(f, i + 1,
            IF InsideFile(f.data, f.chunks[i])
            THEN VCat(result, VSlice(f.data, f.chunks[i].dataOffset, f.chunks[i].dataSize))
            ELSE result)

ExtractRaw(f) == ExtractRawFrom(f, 1, VEmpty(0))

\* decompressSingle; j is what a read one past the slice yields.
SingleEnd(f) ==
    f.chunks[1].dataOffset
        + Min(f.mainCompressedSize, f.data.len - f.chunks[1].dataOffset)

\* calls lists the engine calls made: source range, capacity, and what the
\* call gave back.
\* &data_[at] with at = data_.size() (lines 486, 514): operator[] is called
\* outside its range, which a build with container checks stops at and any
\* other build lets pass as the one-past-the-end address.
IndexTraps(data, at, j) == at >= data.len /\ j = Trap

\* Lines 490-497: what decompressSingle returns once its engine call, on
\* compSize bytes from dataStart, has ended as r.
SingleResult(f, dataStart, compSize, r) ==
    LET call == [srcOff |-> dataStart, srcLen |-> compSize,
                 maxDstLen |-> f.mainDecompressedSize,
                 status |-> r.status, dstLen |-> r.dstLen, dst |-> r.dst]
    IN  IF r.status = "OK"
        THEN [status |-> r.status, out |-> VOfSeq(SubSeq(r.dst, 1, r.dstLen), 0),
              calls |-> <<call>>]
        ELSE [status |-> r.status, out |-> VEmpty(0), calls |-> <<call>>]

DecompressSingle(f, j) ==
    IF f.chunks = <<>> \/ f.mainDecompressedSize = 0
    THEN [status |-> "NONE", out |-> VEmpty(0), calls |-> <<>>]
    ELSE LET dataStart == f.chunks[1].dataOffset
             compSize  == Min(f.mainCompressedSize, f.data.len - dataStart)
         IN  IF IndexTraps(f.data, dataStart, j)
             THEN [status |-> "FAULT", out |-> VEmpty(0), calls |-> <<>>]
             ELSE SingleResult(f, dataStart, compSize,
                               Decompress(VSlice(f.data, dataStart, compSize),
                                          f.mainDecompressedSize, j))

\* Variants of that test: one that takes every decode as a success, and one
\* that asks for the status only.
ChunkDecodedAlways(status, decompLen) == TRUE
ChunkDecodedOnStatus(status, decompLen) == status = "OK"

\* The test decompressChunked puts on one chunk's decode.
ChunkDecoded(status, decompLen) == status = "OK" /\ decompLen > 0

\* Lines 524-530: what the iteration on chunk i does once the engine call
\* on chunkData has ended as r.
ChunkAppended(f, i, chunkData, r) ==
    IF ~InsideFile(f.data, f.chunks[i])
    THEN [f EXCEPT !.i = i, !.segs = Append(@, [kind |-> "skipped", status |-> "NONE"])]
    ELSE IF r.status = "FAULT"
    THEN [f EXCEPT !.pc = "crashed"]
    ELSE IF ChunkDecoded(r.status, r.dstLen)
    THEN [f EXCEPT !.i = i,
                   !.result = VCat(@, VOfSeq(SubSeq(r.dst, 1, r.dstLen), 0)),
                   !.segs = Append(@, [kind |-> "decoded", status |-> r.status]),
                   !.scratch = Overwritten(@, r.dst)]
    ELSE [f EXCEPT !.i = i,
                   !.result = VCat(@, chunkData),
                   !.segs = Append(@, [kind |-> "raw", status |-> r.status]),
                   !.scratch = Overwritten(@, r.dst)]

\* One iteration of the loop of decompressChunked, on chunk i (1-based).
ChunkedIteration(f, i, j) ==
    LET chunk == f.chunks[i]
    IN  IF InsideFile(f.data, chunk) /\ IndexTraps(f.data, chunk.dataOffset, j)
        THEN [f EXCEPT !.pc = "crashed"]
        ELSE ChunkAppended(f, i, VSlice(f.data, chunk.dataOffset, chunk.dataSize),
                           DecompressOver(VSlice(f.data, chunk.dataOffset, chunk.dataSize),
                                          2 * CHUNK_SIZE, j, f.scratch))

\* A variant that counts an output as productive from five bytes on only.
ProductiveBig(result) == result.len > 4

\* The test NFlCFile::decompress puts on a strategy's output.
Productive(result) == result.len > 0

(***************************************************************************)
(* File images.                                                            *)
(***************************************************************************)
MaxStride == 2

VZero(n) == [len |-> n, at |-> [i \in {} |-> 0], fill |-> 0]

\* v with the bytes of q stored from index off on, as far as v goes.
VPatch(v, off, q) ==
    LET rng == {k \in off..(off + Len(q) - 1) : k < v.len}
    IN  [v EXCEPT !.at =
            [i \in (DOMAIN v.at \ rng) \cup {k \in rng : q[k - off + 1] # v.fill}
                |-> IF i \in rng THEN q[i - off + 1] ELSE v.at[i]]]

Bytes32(n) == <<n % 256, (n \div 256) % 256, (n \div 65536) % 256, (n \div 16777216) % 256>>

\* Payloads: four literals and the end marker; the end marker alone; a far
\* match into an empty output; nothing but the zero padding.
Payloads == {<<21, 65, 66, 67, 68, 17, 0, 0>>, <<17, 0, 0>>, <<17, 4, 0>>, <<>>}

\* <<compressedSize, decompressedSize>> of the main header.
HeaderSizes == {<<0, 0>>, <<8, 4>>, <<8, 3>>, <<100000, 100>>}

FileSizes ==
    {0, 63, 64, 65, 72}
        \cup {k * CHUNK_SIZE + e : k \in 1..MaxStride, e \in {15, 16, 40}}

RECURSIVE PutChunks(_, _, _)
PutChunks(v, k, pay) ==
    IF k > MaxStride THEN v
    ELSE IF k \notin DOMAIN pay THEN PutChunks(v, k + 1, pay)
    ELSE PutChunks(
            VPatch(VPatch(v, k * CHUNK_SIZE, NFLC_MAGIC),
                   IF k = 0 THEN MAIN_HEADER_SIZE ELSE k * CHUNK_SIZE + CHUNK_HEADER_SIZE,
                   pay[k]),
            k + 1, pay)

\* Every file of a size in FileSizes with header sizes from HeaderSizes and
\* a payload behind each signature it holds; the strides enumerated for a
\* size are those that start inside it.
FileImages ==
    UNION {UNION {{PutChunks(VPatch(VPatch(VZero(size), CompressedSizeAt, Bytes32(h[1])),
                                    DecompressedSizeAt, Bytes32(h[2])), 0, pay)
                      : h \in HeaderSizes, pay \in [m -> Payloads]}
                  : m \in SUBSET {k \in 0..MaxStride : k * CHUNK_SIZE < size \/ k = 0}}
           : size \in FileSizes}

\* Images outside that product: a signature that is off by one byte, at
\* offset 0 and at a later stride; the 65536-byte buffer with two chunks;
\* version fields whose chunk indices run against the offsets.
NearMiss == {<<110, 70, 108, 0>>, <<0, 70, 108, 67>>, <<110, 0, 0, 0>>}

VersionBytes(k) == <<0, 5 - k, 0, 0>>

RECURSIVE PutVersions(_, _)
PutVersions(v, k) ==
    IF k < 0 THEN v
    ELSE PutVersions(VPatch(v, k * CHUNK_SIZE + VersionAt, VersionBytes(k)), k - 1)

\* One literal, a match of four bytes one byte back with one literal
\* after it, the end marker: decodes to six bytes.
MatchPayload == <<18, 65, 65, 0, 66, 17, 0, 0>>

ExtraImages ==
    {VPatch(PutChunks(VZero(CHUNK_SIZE + 40), 1, [k \in {1} |-> <<17, 0, 0>>]), 0, q)
        : q \in NearMiss}
    \cup {VPatch(PutChunks(VZero(size), 0, [k \in {0} |-> p]), CHUNK_SIZE, q)
            : size \in {CHUNK_SIZE + 40, 2 * CHUNK_SIZE}, p \in Payloads, q \in NearMiss}
    \cup {PutChunks(VZero(2 * CHUNK_SIZE), 0, [k \in {0, 1} |-> p]) : p \in Payloads}
    \cup {PutChunks(VZero(MaxStride * CHUNK_SIZE + 40), 0,
                     [k \in 0..MaxStride |-> IF k = 0 THEN p ELSE MatchPayload])
            : p \in Payloads \cup {MatchPayload}}
    \cup {PutVersions(PutChunks(VZero(MaxStride * CHUNK_SIZE + 40), 0, [k \in m |-> p]),
                      MaxStride)
            : m \in {0..MaxStride, {0, MaxStride}}, p \in Payloads}

FileStart(data) ==
    [pc |-> "load", data |-> data, chunks |-> <<>>,
     mainCompressedSize |-> 0, mainDecompressedSize |-> 0,
     i |-> 0, result |-> VEmpty(0), segs |-> <<>>, tried |-> <<>>, ret |-> VEmpty(0),
     calls |-> <<>>, scratch |-> <<>>]

FileInit ==
    /\ eng = EngIdle
    /\ plain = NoPlain
    /\ \E d \in FileImages \cup ExtraImages : file = FileStart(d)

\* NFlCFile::load once the bytes are read: parseChunks.
Load ==
    /\ file.pc = "load"
    /\ file' = ParseChunks(file)
    /\ UNCHANGED <<eng, plain>>

\* Lines 541-546: NFlCFile::decompress with r back from decompressSingle.
SingleTried(f, r) ==
    LET t == Append(f.tried, [name |-> "SingleBlock", out |-> r.out])
    IN  IF r.status = "FAULT"
        THEN [f EXCEPT !.pc = "crashed", !.calls = r.calls]
        ELSE IF Productive(r.out)
        THEN [f EXCEPT !.pc = "returned", !.ret = r.out, !.tried = t, !.calls = r.calls]
        ELSE [f EXCEPT !.pc = "chunked", !.tried = t, !.calls = r.calls,
                       !.i = 0, !.result = VEmpty(0), !.scratch = <<>>]

\* NFlCFile::decompress up to the test of the single-block result.
TrySingle ==
    /\ file.pc = "decompress"
    /\ \E j \in PastBytes(file.data, SingleEnd(file)) :
          file' = SingleTried(file, DecompressSingle(file, j))
    /\ UNCHANGED <<eng, plain>>

\* One iteration of decompressChunked.
TryChunkedStep ==
    /\ file.pc = "chunked"
    /\ file.i < Len(file.chunks)
    /\ \E j \in PastBytes(file.data, file.chunks[file.i + 1].dataOffset
                                        + file.chunks[file.i + 1].dataSize) :
          file' = ChunkedIteration(file, file.i + 1, j)
    /\ UNCHANGED <<eng, plain>>

\* decompressChunked returns, and NFlCFile::decompress tests its result.
TryChunkedReturn ==
    /\ file.pc = "chunked"
    /\ file.i = Len(file.chunks)
    /\ LET t == Append(file.tried, [name |-> "ChunkedBlocks", out |-> file.result])
       IN  file' = IF Productive(file.result)
                   THEN [file EXCEPT !.pc = "returned", !.ret = file.result, !.tried = t]
                   ELSE [file EXCEPT !.pc = "raw", !.tried = t]
    /\ UNCHANGED <<eng, plain>>

\* The fallback of NFlCFile::decompress.
TryRaw ==
    /\ file.pc = "raw"
    /\ file' = [file EXCEPT !.pc = "returned", !.ret = ExtractRaw(file),
                            !.tried = Append(@, [name |-> "RawExtraction",
                                                 out |-> ExtractRaw(file)])]
    /\ UNCHANGED <<eng, plain>>

FileNext ==
    \/ Load
    \/ TrySingle
    \/ TryChunkedStep
    \/ TryChunkedReturn
    \/ TryRaw

FileSpec == FileInit /\ [][FileNext]_vars

(***************************************************************************)
(* Properties of LZO1XDecompressor::decompress, checked under Spec.        *)
(***************************************************************************)
MatchToks == {"M1D", "M1", "M2", "M3", "M4"}

\* C1: decompress never reads a source byte at an index >= srcLen; every
\* read of the source cursor is preceded by a check that it is inside
\* [src, src+srcLen).
C1_ReadsInsideSrc == ~eng.rdOOB

C3_RoundTrip ==
    (eng.pc = "done" /\ plain.known /\ eng.maxDstLen = Len(plain.bytes))
        => /\ eng.status = "OK"
           /\ eng.dstLen = Len(plain.bytes)
           /\ eng.dst = plain.bytes

\* C6: a match token whose resolved position, as an unsigned value, is at
\* or past the output cursor returns LOOKBEHIND_OVERRUN and writes nothing;
\* and no match ever reads dst at or past the write cursor.
C6_LookbehindSafe ==
    [][/\ (eng'.tok \in MatchToks /\ (eng'.mPos < 0 \/ eng'.mPos >= Len(eng.dst)))
            => (eng'.status = "LOOKBEHIND_OVERRUN" /\ eng'.dst = eng.dst)
       /\ ~eng'.lbBad]_vars

\* C6 witness: a far match whose distance exceeds the bytes produced so far
\* (the subtraction wraps) was refused after some output had been written.
C6_Witness ==
    /\ eng.tok = "M4"
    /\ eng.mPos < 0
    /\ eng.status = "LOOKBEHIND_OVERRUN"
    /\ Len(eng.dst) = 4

\* The decoder asked for a source byte at an index >= srcLen.
NeedsPastEnd(s) == s.rdOOB \/ s.status = "INPUT_OVERRUN"

\* C7: when the stream ends before the decoder has what it needs, and the
\* destination is large enough, decompress returns INPUT_OVERRUN.
C7_TruncatedIsInputOverrun ==
    (eng.pc = "done" /\ eng.maxDstLen = BigCap /\ NeedsPastEnd(eng))
        => eng.status = "INPUT_OVERRUN"

C9_EndMarker ==
    /\ [][(/\ eng.pc = "match" /\ eng.t >= 16 /\ eng.t < 32
           /\ eng'.tok \in {"EOS", "M4"}
           /\ (eng.t \div 8) % 2 = 0
           /\ VAt(eng.src, eng'.ip - 2) \div 4 = 0
           /\ VAt(eng.src, eng'.ip - 1) = 0)
            => (/\ eng'.pc = "done" /\ eng'.status = "OK"
                /\ eng'.dstLen = Len(eng.dst)
                /\ eng'.dst = eng.dst)]_vars
    /\ []((eng.pc = "done" /\ eng.src = VOfSeq(<<17, 0, 0>>, 0))
            => (eng.status = "OK" /\ eng.dstLen = 0 /\ eng.dst = <<>>))

\* C9 witness: the end marker was decoded after output had been produced.
C9_Witness ==
    /\ eng.tok = "EOS" /\ eng.status = "OK"
    /\ eng.dstLen > 0

\* C10: first byte 17 + n (4 <= n <= 238), n literal bytes, end marker:
\* OK with exactly those n bytes whenever maxDstLen >= n.
C10_InitialLiteralRun ==
    LET n == VAt(eng.src, 0) - 17
    IN  (/\ eng.pc = "done"
         /\ n >= 4 /\ n <= 238
         /\ eng.src.len = n + 4
         /\ VAt(eng.src, n + 1) = 17
         /\ VAt(eng.src, n + 2) = 0
         /\ VAt(eng.src, n + 3) = 0
         /\ eng.maxDstLen >= n)
            => (/\ eng.status = "OK"
                /\ eng.dstLen = n
                /\ eng.dst = [i \in 1..n |-> VAt(eng.src, i)])

\* C10 witness: the 19-byte stream 0x20 'A'..'O' 0x11 0 0 decoded into a
\* destination of 15 bytes.
C10_Witness ==
    /\ eng.pc = "done"
    /\ eng.src = VOfSeq(<<32>> \o Lit(15) \o <<17, 0, 0>>, 0)
    /\ eng.maxDstLen = 15
    /\ eng.dst = Lit(15)

(***************************************************************************)
(* Properties of NFlCFile::decompress, checked under FileSpec.             *)
(***************************************************************************)
StrategyOrder == <<"SingleBlock", "ChunkedBlocks", "RawExtraction">>

\* C4: the strategies are attempted in the order SingleBlock, ChunkedBlocks,
\* RawExtraction; a strategy is attempted only after every earlier one
\* returned empty output; the value returned is the output of the first
\* strategy whose output is non-empty, and RawExtraction's when none is.
C4_CascadeOrder ==
    /\ Len(file.tried) <= 3
    /\ \A k \in 1..Len(file.tried) :
          /\ file.tried[k].name = StrategyOrder[k]
          /\ \A m \in 1..(k - 1) : file.tried[m].out.len = 0
    /\ file.pc = "chunked" => Len(file.tried) = 1 /\ file.tried[1].out.len = 0
    /\ file.pc = "raw" => Len(file.tried) = 2 /\ file.tried[2].out.len = 0
    /\ file.pc = "returned" =>
          /\ file.tried # <<>>
          /\ file.ret = file.tried[Len(file.tried)].out
          /\ file.ret.len > 0 \/ Len(file.tried) = 3

\* ChunkedBlocks returned output after SingleBlock had returned none.
C4_Witness ==
    /\ file.pc = "returned"
    /\ Len(file.tried) = 2
    /\ file.tried[1].out.len = 0
    /\ file.ret.len > 0

\* The decode of one chunk's payload into the 2 * CHUNK_SIZE scratch buffer,
\* for a call that returns.
ChunkDecode(c) ==
    Decompress(VSlice(file.data, c.dataOffset, c.dataSize), 2 * CHUNK_SIZE,
               CHOOSE j \in PastBytes(file.data, c.dataOffset + c.dataSize) \ {Trap} : TRUE)

ChunkRaw(c) == VSlice(file.data, c.dataOffset, c.dataSize)

ChunkPlain(c) == VOfSeq(SubSeq(ChunkDecode(c).dst, 1, ChunkDecode(c).dstLen), 0)

RECURSIVE VCatAll(_)
VCatAll(segments) ==
    IF segments = <<>> THEN VEmpty(0)
    ELSE VCat(VCatAll(SubSeq(segments, 1, Len(segments) - 1)), segments[Len(segments)])

\* The segment of a chunk: its decoded bytes when the decode succeeded (OK
\* with at least one byte, the success test of the strategies), its raw
\* payload bytes when it failed.
Segment(c) ==
    IF ChunkDecode(c).status = "OK" /\ ChunkDecode(c).dstLen > 0
    THEN ChunkPlain(c) ELSE ChunkRaw(c)

\* decompressChunked is running or has returned.
InChunked == file.pc \in {"chunked", "crashed"} /\ Len(file.tried) = 1

\* C5: for every chunk table decompressChunked goes through every chunk and
\* returns the concatenation, in chunk-table order and with no chunk
\* omitted, of one segment per chunk: the decoded bytes when the chunk's
\* decode succeeded, the raw payload bytes when it failed; a failing chunk
\* never aborts the call nor changes the segments before or after it.
C5_Degradation ==
    /\ InChunked => file.pc # "crashed"
    /\ file.pc = "chunked" =>
          /\ file.result = VCatAll([k \in 1..file.i |-> Segment(file.chunks[k])])
          /\ Len(file.segs) = file.i
          /\ \A k \in 1..file.i : file.segs[k].kind # "skipped"
    /\ Len(file.tried) >= 2 =>
          /\ file.tried[2].out =
                VCatAll([k \in 1..Len(file.chunks) |-> Segment(file.chunks[k])])
          /\ Len(file.segs) = Len(file.chunks)

\* The same without the first conjunct: what holds of every call of
\* decompressChunked that returns.
ChunkedSegmentsWhenReturning ==
    /\ file.pc = "chunked" =>
          /\ file.result = VCatAll([k \in 1..file.i |-> Segment(file.chunks[k])])
          /\ Len(file.segs) = file.i
          /\ \A k \in 1..file.i : file.segs[k].kind # "skipped"
    /\ Len(file.tried) >= 2 =>
          /\ file.tried[2].out =
                VCatAll([k \in 1..Len(file.chunks) |-> Segment(file.chunks[k])])
          /\ Len(file.segs) = Len(file.chunks)

(***************************************************************************)
(* Properties of NFlCFile::parseChunks, checked under FileSpec.            *)
(***************************************************************************)
\* The buffer does not start with the four signature bytes.
NoSignatureAtStart == \E i \in 0..3 : VAt(file.data, i) # NFLC_MAGIC[i + 1]

\* C11: for every buffer whose first 4 bytes differ from the signature,
\* parseChunks fails and leaves no chunk table, however many later stride
\* positions carry the signature; no strategy runs on it.
C11_ParserFatal ==
    (file.pc # "load" /\ NoSignatureAtStart)
        => (file.pc = "load_failed" /\ file.chunks = <<>>)

\* C11 witness: the parse failed on a buffer whose first bytes are one byte
\* off the signature and whose second stride carries the signature.
C11_Witness ==
    /\ file.pc = "load_failed"
    /\ VAt(file.data, 0) = 110 /\ VAt(file.data, 3) # 67
    /\ file.data.len >= CHUNK_SIZE + CHUNK_HEADER_SIZE
    /\ HasMagic(file.data, CHUNK_SIZE)

\* parseChunks returned true.
Parsed == file.pc \notin {"load", "load_failed"}

\* The stride positions a chunk header fits at and that carry the signature.
SignedStrides ==
    {k * CHUNK_SIZE : k \in {x \in 0..(file.data.len \div CHUNK_SIZE) :
        /\ x * CHUNK_SIZE + CHUNK_HEADER_SIZE <= file.data.len
        /\ \A i \in 0..3 : VAt(file.data, x * CHUNK_SIZE + i) = NFLC_MAGIC[i + 1]}}

\* C12: after every successful parseChunks the offsets of the table are
\* exactly the multiples k * 32768 with k * 32768 + 16 <= bufferLength whose
\* first 4 bytes equal the signature (a later stride that fails the test is
\* left out and does not fail the parse), one descriptor each, in strictly
\* ascending offset order whatever the chunkIndex values are.
C12_TableMembershipAndOrder ==
    Parsed =>
        /\ {file.chunks[i].offset : i \in 1..Len(file.chunks)} = SignedStrides
        /\ Len(file.chunks) = Cardinality(SignedStrides)
        /\ \A i \in 1..Len(file.chunks), j \in 1..Len(file.chunks) :
              i < j => file.chunks[i].offset < file.chunks[j].offset

\* C12 witness: a parse that left out a stride without the signature and
\* kept a later one, with chunk indices that descend along the table.
C12_Witness ==
    /\ Parsed
    /\ Len(file.chunks) = 2
    /\ file.chunks[2].offset = MaxStride * CHUNK_SIZE
    /\ ~HasMagic(file.data, CHUNK_SIZE)
    /\ file.chunks[1].chunkIndex > file.chunks[2].chunkIndex

\* offset, dataOffset and dataSize of descriptor i.
Window(i) ==
    <<file.chunks[i].offset, file.chunks[i].dataOffset, file.chunks[i].dataSize>>

\* C13: after every successful parseChunks each descriptor has dataOffset 64
\* when its offset is 0 and offset + 16 otherwise, and dataSize equal to the
\* next descriptor's offset (bufferLength for the last one) minus its own
\* dataOffset; a 65536-byte buffer with the signature at offsets 0 and 32768
\* gives {0, 64, 32704} and {32768, 32784, 32752}.
C13_PayloadWindow ==
    Parsed =>
        /\ \A i \in 1..Len(file.chunks) :
              /\ file.chunks[i].dataOffset =
                    IF file.chunks[i].offset = 0 THEN 64 ELSE file.chunks[i].offset + 16
              /\ file.chunks[i].dataSize =
                    (IF i < Len(file.chunks) THEN file.chunks[i + 1].offset
                     ELSE file.data.len) - file.chunks[i].dataOffset
        /\ (file.data.len = 65536 /\ SignedStrides = {0, 32768}) =>
              /\ Len(file.chunks) = 2
              /\ Window(1) = <<0, 64, 32704>>
              /\ Window(2) = <<32768, 32784, 32752>>

\* C13 witness: the 65536-byte buffer with two chunks was parsed.
C13_Witness ==
    /\ Parsed
    /\ file.data.len = 65536
    /\ Len(file.chunks) = 2
    /\ Window(1) = <<0, 64, 32704>>
    /\ Window(2) = <<32768, 32784, 32752>>

(***************************************************************************)
(* Further properties of LZO1XDecompressor::decompress.                    *)
(***************************************************************************)
\* A pass through the literal-run step, a match step or the trailing-literal
\* step is starting.
ConsumingStep ==
    \/ eng.pc = "loop_top" /\ eng.t < 16
    \/ eng.pc \in {"first_literal_run", "match", "match_next"}

\* Every such pass moves the source cursor on by at least one byte, unless
\* it returns.
StepsConsume == [][ConsumingStep => (eng'.pc = "done" \/ eng'.ip > eng.ip)]_vars

\* C14: decompress terminates and returns one of OK, INPUT_OVERRUN,
\* OUTPUT_OVERRUN, LOOKBEHIND_OVERRUN, INVALID_DATA; every pass through the
\* literal-run step, a match step or the trailing-literal step advances the
\* source cursor by at least one byte unless it returns.
C14_Terminates ==
    /\ <>(eng.pc = "done")
    /\ [](eng.pc = "done" =>
            eng.status \in {"OK", "INPUT_OVERRUN", "OUTPUT_OVERRUN",
                            "LOOKBEHIND_OVERRUN", "INVALID_DATA"})
    /\ StepsConsume

\* The top of the main loop was reached from match_done with no trailing
\* literals (from the entry the cursor is at 1), and a byte is left.
ResumingAfterMatch ==
    eng.pc = "loop_top" /\ eng.ip >= 2 /\ eng.ip < eng.src.len

\* C15: when a match copy completes with a trailing-literal count of 0, the
\* byte at the source cursor is read as a new control byte and decoded by
\* its value: a match or the end marker when it is >= 16, a literal run of
\* its own count when it is in 1..15; it is not taken as a length-extension
\* byte of another token.
C15_ResumeAfterMatch ==
    [][ResumingAfterMatch =>
          LET c == VAt(eng.src, eng.ip)
          IN  /\ c >= 16 =>
                    /\ eng'.pc = "match" /\ eng'.t = c
                    /\ eng'.ip = eng.ip + 1
                    /\ eng'.dst = eng.dst
              /\ (c >= 1 /\ c < 16) =>
                    \/ eng'.pc = "done"
                    \/ /\ eng'.pc = "first_literal_run"
                       /\ Len(eng'.dst) = Len(eng.dst) + c + 3
                       /\ eng'.ip = eng.ip + 1 + c + 3]_vars

\* C16 as stated: after every match copy the trailing-literal count is the
\* low 2 bits of the most recently consumed byte of the match token.
C16_AsStated ==
    [][eng.pc = "match_done" => eng'.t = VAt(eng.src, eng.ip - 1) % 4]_vars

\* The trailing-literal step runs after a match (from the entry the cursor
\* is at 1).
TrailingAfterMatch == eng.pc = "match_next" /\ eng.ip >= 2

\* C16, amended: after every match copy of any of the four encodings the
\* trailing-literal count is the low 2 bits of the byte two positions before
\* the source cursor, ip[-2]: the control byte for the tokens with one
\* distance byte, the first of the two distance bytes for the others.  When
\* it is 0 no trailing literal is copied; when it is 1..3 exactly that many
\* source bytes are copied verbatim right after the match, unless a bound
\* check returns first.
C16_TrailingCount ==
    [][/\ eng.pc = "match_done" =>
            /\ eng'.t = VAt(eng.src, eng.ip - 2) % 4
            /\ eng'.dst = eng.dst /\ eng'.ip = eng.ip
            /\ eng'.pc = IF eng'.t = 0 THEN "loop_top" ELSE "match_next"
       /\ TrailingAfterMatch =>
            /\ eng.t = VAt(eng.src, eng.ip - 2) % 4
            /\ \/ eng'.pc = "done" /\ eng'.dst = eng.dst
               \/ eng'.dst = eng.dst \o [i \in 1..eng.t |-> VAt(eng.src, eng.ip + i - 1)]]_vars

\* C16 witness: trailing literals were copied after a match whose last
\* consumed byte carries other low bits than the byte before it.
C16_Witness ==
    /\ eng.pc = "match"
    /\ eng.ip >= 5
    /\ VAt(eng.src, eng.ip - 4) % 4 = 1
    /\ VAt(eng.src, eng.ip - 3) % 4 # 1
    /\ Len(eng.dst) >= 4
    /\ eng.dst[Len(eng.dst)] = VAt(eng.src, eng.ip - 2)

\* A far-match token that is not the end marker was resolved by this step.
FarMatchStep == eng.pc = "match" /\ eng'.tok = "M4"

\* (t & 8) << 11 of the control byte, and what the two distance bytes add.
FarHigh == ((eng.t \div 8) % 2) * 16384
FarLow == (VAt(eng.src, eng'.ip - 2) \div 4) + VAt(eng.src, eng'.ip - 1) * 64

\* The length of the token: (t & 7) + 2, the low 3 bits being replaced by
\* 255 per zero byte + 7 + the closing byte when they are 0.
FarLength ==
    IF eng.t % 8 # 0 THEN (eng.t % 8) + 2
    ELSE 255 * (eng'.ip - 3 - eng.ip) + 7 + VAt(eng.src, eng'.ip - 3) + 2

\* C17 as stated: the far match copies from cursor - ((t & 8) << 11)
\* - ((b0 >> 2) + (b1 << 6)).
C17_AsStated ==
    [][FarMatchStep => eng'.mPos = Len(eng.dst) - FarHigh - FarLow]_vars

\* C17, amended: for every non-sentinel far-match token (16 <= t < 32) with
\* distance bytes b0, b1 the match copies from position
\* cursor - ((t & 8) << 11) - ((b0 >> 2) + (b1 << 6)) - 0x4000, measured from
\* the current output cursor, with length (t & 7) + 2 (the low 3 bits
\* extended by the zero-byte run with bias 7 when they are 0).
C17_FarMatch ==
    [][FarMatchStep =>
          /\ eng.t >= 16 /\ eng.t < 32
          /\ eng'.mPos = Len(eng.dst) - FarHigh - FarLow - 16384
          /\ eng'.pc = "match_done" =>
                /\ Len(eng'.dst) = Len(eng.dst) + FarLength
                /\ \A i \in 0..(FarLength - 1) :
                      eng'.dst[Len(eng.dst) + i + 1] = eng'.dst[eng'.mPos + i + 1]]_vars

\* C17 witness: a far match of 10 bytes, its length carried by an extension
\* byte, was copied from 16385 bytes back.
C17_Witness ==
    /\ eng.pc = "match_done" /\ eng.tok = "M4"
    /\ eng.mPos = 0
    /\ Len(eng.dst) = 16385 + 10
(***************************************************************************)
(* C18: the single-block strategy.                                         *)
(***************************************************************************)
\* The step of NFlCFile::decompress that runs decompressSingle.
SingleStep == file.pc = "decompress" /\ file' # file

\* What decompressSingle hands to the engine, read off the header fields
\* and the chunk table.
SingleRange ==
    [srcOff |-> file.chunks[1].dataOffset,
     srcLen |-> Min(file.mainCompressedSize, file.data.len - file.chunks[1].dataOffset),
     maxDstLen |-> file.mainDecompressedSize]

\* The one engine call of the step is on SingleRange.
SingleCallOnRange ==
    /\ Len(file'.calls) = 1
    /\ file'.calls[1].srcOff = SingleRange.srcOff
    /\ file'.calls[1].srcLen = SingleRange.srcLen
    /\ file'.calls[1].maxDstLen = SingleRange.maxDstLen

\* The output of decompressSingle follows the claim's rule on the call.
SingleOutputRule ==
    LET c   == file'.calls[1]
        out == file'.tried[1].out
    IN  /\ out.len > 0 <=> (c.status = "OK" /\ c.dstLen > 0)
        /\ out.len > 0 => /\ out = VOfSeq(SubSeq(c.dst, 1, c.dstLen), 0)
                           /\ out.len <= file.mainDecompressedSize

\* C18 (SingleBlock): decompressSingle invokes the engine exactly once, on
\* the range that starts at the first chunk's dataOffset with length
\* min(compressedSize, bufferLength - dataOffset) and capacity
\* decompressedSize; it returns non-empty output exactly when that call
\* returns OK with producedLen > 0, the output then being the first
\* producedLen decoded bytes, and empty output in every other case.
C18_SingleBlock ==
    [][SingleStep =>
          /\ file'.pc # "crashed"
          /\ SingleCallOnRange
          /\ SingleOutputRule]_vars

\* What holds of decompressSingle: with decompressedSize = 0 it makes no
\* engine call and returns empty output; otherwise, unless it stops on
\* taking the address of an empty range at the end of the buffer, it makes
\* one call, on SingleRange, and when that call returns the output follows
\* the rule.
SingleBlockWhenReturning ==
    [][SingleStep =>
          IF file.mainDecompressedSize = 0
          THEN file'.calls = <<>> /\ file'.tried[1].out.len = 0
          ELSE /\ file'.pc # "crashed" => (SingleCallOnRange /\ SingleOutputRule)
               /\ file'.pc = "crashed" =>
                     \/ SingleCallOnRange /\ file'.calls[1].status = "FAULT"
                     \/ file'.calls = <<>> /\ SingleRange.srcLen = 0]_vars

\* decompressSingle did not return: its engine call read past the buffer.
SingleCrashed == file.pc = "crashed" /\ file.tried = <<>>

\* decompressSingle returned decoded bytes from its one call.
SingleDecoded ==
    /\ Len(file.calls) = 1 /\ file.calls[1].status = "OK"
    /\ file.pc = "returned" /\ file.tried[1].out.len = 4

\* decompressSingle made no engine call.
SingleNoCall == file.pc = "chunked" /\ file.calls = <<>>

(***************************************************************************)
(* C19: chunks are decoded independently of what the scratch buffer held.  *)
(***************************************************************************)
\* Scratch contents to run a chunk over: the fresh buffer, the four bytes a
\* literal chunk leaves, and bytes no chunk of the images writes.
Priors == {<<>>, <<65, 66, 67, 68>>, <<1, 2, 3, 4, 5, 6, 7, 8>>}

\* An iteration of decompressChunked that calls the engine on chunk i + 1.
ChunkStep ==
    /\ file.pc = "chunked" /\ file.i < Len(file.chunks)
    /\ InsideFile(file.data, file.chunks[file.i + 1])
    /\ file' # file

NextChunk == file.chunks[file.i + 1]

\* The engine call of that iteration, over scratch contents p.
ChunkCallOver(p, j) ==
    DecompressOver(ChunkRaw(NextChunk), 2 * CHUNK_SIZE, j, p)

\* The engine read a position of its destination it had not written.
ReadUnwritten(r) == r.lbBad

SameOutcome(r1, r2) ==
    /\ r1.status = r2.status
    /\ r1.dstLen = r2.dstLen
    /\ r1.dst = r2.dst

\* C19 (chunk independence): in decompressChunked the engine never reads a
\* scratch position it has not written during the current call, so a chunk
\* run over any two prior scratch contents gives the same status,
\* producedLen and bytes, and the segment the loop appends for chunk i is
\* the one it would append after any other preceding chunks.
C19_ChunkIndependence ==
    [][ChunkStep =>
          /\ \A j \in PastBytes(file.data, NextChunk.dataOffset + NextChunk.dataSize) :
                LET r == ChunkCallOver(file.scratch, j)
                IN  /\ ~ReadUnwritten(r)
                    /\ \A p \in Priors : SameOutcome(r, ChunkCallOver(p, j))
          /\ \A p \in Priors :
                \E j \in PastBytes(file.data, NextChunk.dataOffset + NextChunk.dataSize) :
                   LET g == ChunkedIteration([file EXCEPT !.scratch = p], file.i + 1, j)
                   IN  /\ g.pc = file'.pc
                       /\ g.result = file'.result
                       /\ g.segs = file'.segs]_vars

\* C19 witness: a chunk holding a match was decoded into a scratch buffer
\* that still held the four other bytes of the chunk before it.
C19_Witness ==
    /\ file.pc = "chunked" /\ file.i = 2
    /\ file.segs[1].kind = "decoded" /\ file.segs[2].kind = "decoded"
    /\ file.scratch = <<65, 65, 65, 65, 65, 66>>
    /\ file.result.len = 10

(***************************************************************************)
(* C20: a match may overlap the bytes it writes.                           *)
(***************************************************************************)
\* A general match (lines 169-249) that got through its checks and copied.
GeneralCopyStep ==
    /\ eng.pc = "match" /\ eng'.pc = "match_done"
    /\ eng'.tok \in {"M2", "M3", "M4"}

\* The cursor before the copy, the source position, the length copied.
CopyCursor == Len(eng.dst)
CopyFrom == eng'.mPos
CopyLength == Len(eng'.dst) - Len(eng.dst)

\* C20 (overlapping match copy): for every general match with valid source
\* position p < cursor c and length L, after the copy out[c+i] = out[p+i]
\* for all 0 <= i < L in the final buffer, also when c - p < L; a match at
\* distance 1 of length L writes L copies of the byte preceding the cursor.
C20_OverlappingCopy ==
    [][GeneralCopyStep =>
          /\ CopyFrom >= 0 /\ CopyFrom < CopyCursor
          /\ CopyLength >= 3
          /\ SubSeq(eng'.dst, 1, CopyCursor) = eng.dst
          /\ \A i \in 0..(CopyLength - 1) :
                eng'.dst[CopyCursor + i + 1] = eng'.dst[CopyFrom + i + 1]
          /\ CopyFrom = CopyCursor - 1 =>
                \A i \in 0..(CopyLength - 1) :
                   eng'.dst[CopyCursor + i + 1] = eng.dst[CopyCursor]]_vars

\* C20 witness: a general match of five bytes was copied from two bytes
\* back, so it read three bytes it had written itself.
C20_Witness ==
    /\ eng.pc = "match_done" /\ eng.tok = "M2"
    /\ Len(eng.dst) = eng.mPos + 2 + 5
    /\ eng.dst[eng.mPos + 1] # eng.dst[eng.mPos + 2]
    /\ \A i \in 1..5 : eng.dst[eng.mPos + 2 + i] = eng.dst[eng.mPos + i]

\* A general match of three bytes was copied from one byte back.
DistanceOneCopied ==
    /\ eng.pc = "match_done" /\ eng.tok = "M3"
    /\ Len(eng.dst) = eng.mPos + 1 + 3
    /\ \A i \in 1..3 : eng.dst[eng.mPos + 1 + i] = eng.dst[eng.mPos + 1]

(***************************************************************************)
(* C21: the raw fallback inside the cascade.                               *)
(***************************************************************************)
\* SingleBlock and ChunkedBlocks have both returned, with empty output.
BothEmpty ==
    /\ Len(file.tried) >= 2
    /\ file.tried[1].out.len = 0
    /\ file.tried[2].out.len = 0

\* C21: on every successfully parsed buffer, whenever SingleBlock and
\* ChunkedBlocks both return empty output extractRaw returns empty output
\* too, so NFlCFile::decompress returns non-empty output exactly when
\* SingleBlock or ChunkedBlocks does; ChunkedBlocks is empty only when
\* every chunk's dataSize is 0.
C21_RawNeverProductive ==
    /\ BothEmpty => ExtractRaw(file).len = 0
    /\ Len(file.tried) = 3 => file.tried[3].out.len = 0
    /\ file.pc = "returned" =>
          (file.ret.len > 0 <=>
              \E k \in 1..Min(2, Len(file.tried)) : file.tried[k].out.len > 0)
    /\ (Len(file.tried) >= 2 /\ file.tried[2].out.len = 0) =>
          \A i \in 1..Len(file.chunks) : file.chunks[i].dataSize = 0

\* C21 witness: the cascade fell through to extractRaw, on a buffer whose
\* header says there is something to decode, and returned nothing.
C21_Witness ==
    /\ file.pc = "returned"
    /\ Len(file.tried) = 3
    /\ file.tried[3].name = "RawExtraction"
    /\ file.mainDecompressedSize > 0
    /\ Len(file.calls) = 1
    /\ file.ret.len = 0

(***************************************************************************)
(* C22: payload windows and the out-of-range guards.                       *)
(***************************************************************************)
\* The windows of the table, one after the other.
AllWindows ==
    VCatAll([i \in 1..Len(file.chunks) |->
                VSlice(file.data, file.chunks[i].dataOffset, file.chunks[i].dataSize)])

\* C22: after every successful parseChunks every descriptor satisfies
\* dataOffset <= bufferLength and dataOffset + dataSize <= bufferLength,
\* the subtraction that computes dataSize never going below zero, so the
\* out-of-range guards of extractRaw and decompressChunked never skip a
\* chunk.
C22_WindowsInside ==
    Parsed =>
        /\ \A i \in 1..Len(file.chunks) :
              /\ file.chunks[i].dataOffset <= file.data.len
              /\ file.chunks[i].dataSize >= 0
              /\ file.chunks[i].dataOffset + file.chunks[i].dataSize <= file.data.len
              /\ InsideFile(file.data, file.chunks[i])
        /\ \A k \in 1..Len(file.segs) : file.segs[k].kind # "skipped"
        /\ ExtractRaw(file) = AllWindows

\* C22 witness: decompressChunked went through a table whose last window
\* is empty and starts at the end of the buffer, and skipped nothing.
C22_Witness ==
    /\ file.pc = "chunked"
    /\ Len(file.chunks) = 2 /\ file.i = 2
    /\ file.chunks[2].dataOffset = file.data.len
    /\ file.chunks[2].dataSize = 0
    /\ Len(file.segs) = 2

(***************************************************************************)
(* C23: when parseChunks succeeds.                                         *)
(***************************************************************************)
\* C23: parseChunks succeeds if and only if bufferLength >= 64 and the
\* first 4 bytes equal the signature; a shorter buffer is rejected even
\* when it starts with the signature, and whenever the offset-0 check
\* passes the table holds the offset-0 descriptor, so no parse fails on an
\* empty table alone.
C23_ParseSuccess ==
    file.pc # "load" =>
        /\ Parsed <=> (file.data.len >= 64 /\ ~NoSignatureAtStart)
        /\ Parsed => (file.chunks # <<>> /\ file.chunks[1].offset = 0)
        /\ ~Parsed => file.chunks = <<>>

\* C23 witness: a 63-byte buffer that starts with the signature was
\* rejected.
C23_Witness ==
    /\ file.pc = "load_failed"
    /\ file.data.len = 63
    /\ ~NoSignatureAtStart
    /\ file.chunks = <<>>

\* A 64-byte buffer that starts with the signature was parsed.
SmallestParsed == Parsed /\ file.data.len = 64 /\ Len(file.chunks) = 1

(***************************************************************************)
(* C24: source bytes after the end marker.                                 *)
(***************************************************************************)
\* The furthest marker position from which the call is run again on other
\* tails: every stream but the two with 16385 literals.
MaxTailSrc == 4096

\* The step that decodes the end-of-stream marker.
EndMarkerStep == eng.pc # "done" /\ eng'.pc = "done" /\ eng'.tok = "EOS"

\* The source up to and including the marker just decoded, followed by q.
\* The call on it is run with any read past its end trapping.
WithTail(q) ==
    [len  |-> eng'.ip + Len(q),
     at   |-> [i \in {k \in DOMAIN eng.src.at : k < eng'.ip}
                       \cup {eng'.ip + k - 1 : k \in {x \in 1..Len(q) : q[x] # 0}}
                 |-> IF i < eng'.ip THEN eng.src.at[i] ELSE q[i - eng'.ip + 1]],
     fill |-> 0]

\* C24: decompress returns OK with the bytes produced so far at the first
\* end-of-stream marker it decodes, whatever the number and content of the
\* source bytes that follow the marker inside the source; those bytes are
\* neither read nor reported as an error.
C24_TailIgnored ==
    [][EndMarkerStep =>
          /\ eng'.status = "OK"
          /\ eng'.dst = eng.dst
          /\ eng'.dstLen = Len(eng.dst)
          /\ eng'.ip <= eng.src.len
          /\ ~eng'.rdOOB
          /\ eng'.ip <= MaxTailSrc =>
               \A q \in Tails \cup {<<>>} :
                LET r == Decompress(WithTail(q), eng.maxDstLen, Trap)
                IN  /\ r.status = "OK"
                    /\ r.ip = eng'.ip
                    /\ r.dstLen = eng'.dstLen
                    /\ r.dst = eng'.dst]_vars

\* C24 witness: the call returned OK at an end marker with five source
\* bytes still ahead, having produced output.
C24_Witness ==
    /\ eng.pc = "done" /\ eng.tok = "EOS" /\ eng.status = "OK"
    /\ eng.src.len = eng.ip + 5
    /\ VAt(eng.src, eng.ip) = 21
    /\ eng.dstLen > 0

(***************************************************************************)
(* C25: a decode that produces nothing.                                    *)
(***************************************************************************)
\* The engine call ended OK without producing a byte.
EmptyDecode(r) == r.status = "OK" /\ r.dstLen = 0

\* C25: for every chunk whose payload decodes with status OK and
\* producedLen = 0 (a payload that starts with the end marker),
\* decompressChunked appends the chunk's raw payload bytes, dataSize of
\* them, to its output instead of appending nothing.
C25_EmptyDecodeIsFailure ==
    [][ChunkStep =>
          \A j \in PastBytes(file.data, NextChunk.dataOffset + NextChunk.dataSize) :
             EmptyDecode(ChunkCallOver(file.scratch, j)) =>
                /\ file'.pc = "chunked"
                /\ file'.i = file.i + 1
                /\ file'.result = VCat(file.result, ChunkRaw(NextChunk))
                /\ file'.result.len = file.result.len + NextChunk.dataSize
                /\ file'.segs = Append(file.segs, [kind |-> "raw", status |-> "OK"])]_vars

\* C25 witness: the loop has appended the raw payload of a chunk that
\* starts with the end marker and decoded OK to nothing.
C25_Witness ==
    /\ file.pc = "chunked" /\ file.i > 0
    /\ file.segs[file.i] = [kind |-> "raw", status |-> "OK"]
    /\ VAt(file.data, file.chunks[file.i].dataOffset) = 17
    /\ file.chunks[file.i].dataSize >= 3
    /\ file.result.len >= file.chunks[file.i].dataSize

====
